---- MODULE Spec2Model ----
(***************************************************************************)
(* rn-show-more-text: the visual-width helpers (src/src/helper.ts) and the *)
(* two platform components (src/src/rnShowMoreText.tsx, lines 639-1017,    *)
(* and src/src/rnShowMoreText.ios.tsx).                                    *)
(*                                                                         *)
(* A JavaScript string is modelled as the sequence of its UTF-16 code      *)
(* units.  A code unit is a token; a character outside the Basic           *)
(* Multilingual Plane is a pair of surrogate tokens.  String indices are   *)
(* 0-based as in the source: the unit at index p of s is s[p + 1].         *)
(* Numbers that the source holds in floating point are exact rationals     *)
(* [n, d] with d > 0.                                                      *)
(***************************************************************************)
EXTENDS Integers, Sequences, FiniteSets, TLC

(***************************************************************************)
(* Code units and code points                                              *)
(***************************************************************************)

\* U+1F600 (Extended_Pictographic, outside the BMP) as its surrogate pair
PIC == <<"picH", "picL">>
\* U+1F1FA, a Regional_Indicator (outside the BMP) as its surrogate pair
RI == <<"riH", "riL">>
\* U+1D49C, a letter outside the BMP that is no emoji
A4 == <<"a4H", "a4L">>

HighSurrogates == {"picH", "riH", "a4H"}
LowSurrogates == {"picL", "riL", "a4L"}

Min(a, b) == IF a <= b THEN a ELSE b
Max(a, b) == IF a >= b THEN a ELSE b

\* s.slice(from, to) with 0 <= from, to (already normalised indices)
Slice(s, from, to) == IF from >= Min(to, Len(s)) THEN <<>> ELSE SubSeq(s, from + 1, Min(to, Len(s)))

\* number of code units of the code point that starts at index p
CpLen(s, p) == IF p + 1 < Len(s) /\ s[p + 1] \in HighSurrogates /\ s[p + 2] \in LowSurrogates THEN 2 ELSE 1

\* the code point at index p, as the string of its code units
CpAt(s, p) == Slice(s, p, p + CpLen(s, p))

\* \p{Extended_Pictographic}: "hrt" is U+2764 (in the BMP), PIC is U+1F600
IsExtPict(s, p) == p < Len(s) /\ CpAt(s, p) \in {<<"hrt">>, PIC}
\* \p{Regional_Indicator}
IsRegional(s, p) == p < Len(s) /\ CpAt(s, p) = RI
\* U+FE0F, variation selector 16
IsVS16(s, p) == p < Len(s) /\ s[p + 1] = "vs16"
\* U+200D, zero width joiner
IsZWJ(s, p) == p < Len(s) /\ s[p + 1] = "zwj"

\* the code points of s, in order (for (const char of s))
RECURSIVE CodePointsFrom(_, _)
CodePointsFrom(s, p) == IF p >= Len(s) THEN <<>> ELSE <<CpAt(s, p)>> \o CodePointsFrom(s, p + CpLen(s, p))
CodePoints(s) == CodePointsFrom(s, 0)

\* String.prototype.normalize("NFC"): "e" followed by the combining acute
\* accent U+0301 composes to U+00E9; every other token is left as it is
RECURSIVE NFCFrom(_, _)
NFCFrom(s, p) == IF p >= Len(s) THEN <<>> ELSE IF p + 1 < Len(s) /\ s[p + 1] = "e" /\ s[p + 2] = "acute" THEN <<"eacute">> \o NFCFrom(s, p + 2) ELSE <<s[p + 1]>> \o NFCFrom(s, p + 1)
NFC(s) == NFCFrom(s, 0)

WhiteSpace == {"sp", "nl"}

\* String.prototype.trim()
RECURSIVE TrimEnd(_)
TrimEnd(s) == IF s # <<>> /\ s[Len(s)] \in WhiteSpace THEN TrimEnd(SubSeq(s, 1, Len(s) - 1)) ELSE s
RECURSIVE TrimStart(_)
TrimStart(s) == IF s # <<>> /\ s[1] \in WhiteSpace THEN TrimStart(Tail(s)) ELSE s
Trim(s) == TrimStart(TrimEnd(s))

\* s.endsWith("\n")
EndsWithNewline(s) == s # <<>> /\ s[Len(s)] = "nl"
\* s.endsWith("\n") ? s.slice(0, -1) : s
StripNewline(s) == IF EndsWithNewline(s) THEN SubSeq(s, 1, Len(s) - 1) ELSE s

(***************************************************************************)
(* Rationals                                                               *)
(***************************************************************************)
RECURSIVE GCD(_, _)
GCD(a, b) == IF b = 0 THEN a ELSE GCD(b, a % b)
Abs(k) == IF k < 0 THEN -k ELSE k
\* the rational n / d (d > 0) in lowest terms
Rat(n, d) == LET g == GCD(Abs(n), d) IN [n |-> n \div g, d |-> d \div g]
RInt(k) == Rat(k, 1)
RAdd(x, y) == Rat(x.n * y.d + y.n * x.d, x.d * y.d)
RSub(x, y) == Rat(x.n * y.d - y.n * x.d, x.d * y.d)
RMul(x, y) == Rat(x.n * y.n, x.d * y.d)
RLe(x, y) == x.n * y.d <= y.n * x.d
RLt(x, y) == x.n * y.d < y.n * x.d
RIsZero(x) == x.n = 0
RAbs(x) == [n |-> Abs(x.n), d |-> x.d]
\* x / k for an integer k > 0
RDivInt(x, k) == Rat(x.n, x.d * k)
\* the multipliers 0.5, 1.5 and 2 of the width classes
Half == Rat(1, 2)
OneAndHalf == Rat(3, 2)
Two == Rat(2, 1)

(***************************************************************************)
(* helper.ts: the character sets, the two emoji regexes, the normalization *)
(* cache                                                                   *)
(***************************************************************************)

\* SHORT_CHARACTERS: of its members the model has "i", "r" and "." ("dot")
SHORT_CHARACTERS == {<<"i">>, <<"r">>, <<"dot">>}
\* LONG_CHARACTERS
LONG_CHARACTERS == {<<"m">>, <<"w">>}

\* EMOJI_REGEX, second part of the first alternative, from index q on:
\* (?:\u200D\p{Extended_Pictographic}(?:\uFE0F)?)*
RECURSIVE EmojiTail(_, _)
EmojiTail(s, q) == IF IsZWJ(s, q) /\ IsExtPict(s, q + 1) THEN LET r == q + 1 + CpLen(s, q + 1) IN EmojiTail(s, IF IsVS16(s, r) THEN r + 1 ELSE r) ELSE q

\* EMOJI_REGEX matched at index p: the end of the match, or -1
EMOJI_REGEX(s, p) ==
  IF IsExtPict(s, p) THEN LET q == p + CpLen(s, p) IN EmojiTail(s, IF IsVS16(s, q) THEN q + 1 ELSE q)
  ELSE IF IsRegional(s, p) /\ IsRegional(s, p + 2) THEN p + 4
  ELSE -1

\* SIMPLE_EMOJI_REGEX, the starred group from index q on:
\* (?:\uFE0F|\u200D\p{Extended_Pictographic})*
RECURSIVE SimpleTail(_, _)
SimpleTail(s, q) ==
  IF IsVS16(s, q) THEN SimpleTail(s, q + 1)
  ELSE IF IsZWJ(s, q) /\ IsExtPict(s, q + 1) THEN SimpleTail(s, q + 1 + CpLen(s, q + 1))
  ELSE q

\* mutant: a pattern of the pictographic code point alone
PictographicAlone(s, p) == IF IsExtPict(s, p) THEN p + CpLen(s, p) ELSE -1

\* SIMPLE_EMOJI_REGEX matched at index p: the end of the match, or -1
SIMPLE_EMOJI_REGEX(s, p) == IF IsExtPict(s, p) THEN SimpleTail(s, p + CpLen(s, p)) ELSE -1

MatchAt(regex, s, p) == IF regex = "EMOJI" THEN EMOJI_REGEX(s, p) ELSE SIMPLE_EMOJI_REGEX(s, p)

NoMatch == [found |-> FALSE, index |-> 0, end |-> 0]

\* the first match of a global unicode regex at or after index p
RECURSIVE FindMatch(_, _, _)
FindMatch(regex, s, p) ==
  IF p >= Len(s) THEN NoMatch
  ELSE LET Found(e) == IF e >= 0 THEN [found |-> TRUE, index |-> p, end |-> e] ELSE FindMatch(regex, s, p + CpLen(s, p))
       IN Found(MatchAt(regex, s, p))

\* regex.exec(s) of a global regex whose lastIndex is lastIndex: the match, whose
\* end is the regex's new lastIndex; after a failed exec the new lastIndex is 0
Exec(regex, s, lastIndex) == IF lastIndex > Len(s) THEN NoMatch ELSE FindMatch(regex, s, lastIndex)

\* mutant: the cursor left where it is
KeepLastIndex(lastIndex) == lastIndex

\* the statement "REGEX.lastIndex = 0", given the cursor it overwrites
ResetLastIndex(lastIndex) == 0

\* the module-level state: the cursors of the two global regexes, and the cache
EmptyCache == <<>>
FreshGlobals == [emoji |-> 0, simple |-> 0, cache |-> EmptyCache]

NormalizeCacheLimit == 1000

\* mutant: a cache that is never cleared
NeverOverflown(size) == FALSE

\* "if (normalizeCache.size > 1000)"
Overflown(size) == size > NormalizeCacheLimit

\* getNormalizedString: the normalized text and the cache after the call
getNormalizedString(text, cache) ==
  IF text \in DOMAIN cache THEN [val |-> cache[text], cache |-> cache]
  ELSE LET normalized == NFC(text)
           kept == IF Overflown(Cardinality(DOMAIN cache)) THEN EmptyCache ELSE cache
       IN [val |-> normalized, cache |-> [k \in (DOMAIN kept) \cup {text} |-> IF k = text THEN normalized ELSE kept[k]]]

\* number of code points of input that are in chars
RECURSIVE CountIn(_, _)
CountIn(cps, chars) == IF cps = <<>> THEN 0 ELSE (IF Head(cps) \in chars THEN 1 ELSE 0) + CountIn(Tail(cps), chars)

countShortCharactersHelper(input, customShortCharacters) == CountIn(CodePoints(input), customShortCharacters \cup SHORT_CHARACTERS)

\* the loop "while ((match = EMOJI_REGEX.exec(normalized)) !== null)" that
\* counts visual units (helper.ts 140-154 and 301-313); the loop leaves the
\* cursor at 0, since it ends with a failed exec
RECURSIVE CountUnits(_, _, _, _, _)
CountUnits(normalized, cursor, lastIndex, visualLength, emojiCount) ==
  LET Counted(match) ==
        IF ~match.found
        THEN [visualLength |-> visualLength + (IF lastIndex < Len(normalized) THEN Len(normalized) - lastIndex ELSE 0), emojiCount |-> emojiCount]
        ELSE CountUnits(normalized, match.end, match.end, visualLength + (IF match.index > lastIndex THEN match.index - lastIndex ELSE 0) + 1, emojiCount + 1)
  IN Counted(Exec("EMOJI", normalized, cursor))

\* getVisualLengthHelper, with the module-level state g it starts in
getVisualLengthHelperG(text, customShortCharacters, customLongCharacters, g) ==
  IF text = <<>> THEN [val |-> [visualLength |-> 0, shortCharCount |-> 0, emojiCount |-> 0, longCharCount |-> 0], g |-> g]
  ELSE LET Measured(norm) ==
             LET Lengths(counted) ==
                   [val |-> [visualLength |-> counted.visualLength,
                             shortCharCount |-> countShortCharactersHelper(text, customShortCharacters),
                             emojiCount |-> counted.emojiCount,
                             longCharCount |-> CountIn(CodePoints(text), customLongCharacters \cup LONG_CHARACTERS)],
                    g |-> [g EXCEPT !.emoji = ResetLastIndex(0), !.cache = norm.cache]]
             IN Lengths(CountUnits(norm.val, ResetLastIndex(g.emoji), 0, 0, 0))
       IN Measured(getNormalizedString(text, g.cache))

getVisualLengthHelper(text, customShortCharacters, customLongCharacters) == getVisualLengthHelperG(text, customShortCharacters, customLongCharacters, FreshGlobals).val

\* an optional number: the "undefined" of an omitted argument, or a value
Undefined == [def |-> FALSE, v |-> 0]
Some(k) == [def |-> TRUE, v |-> k]

RECURSIVE Join(_)
Join(segments) == IF segments = <<>> THEN <<>> ELSE Head(segments) \o Join(Tail(segments))

\* the loop of visualSliceHelper that splits text into segments: the matches
\* of the regex, and the code points between them
RECURSIVE SegmentLoop(_, _, _, _, _)
SegmentLoop(regex, text, cursor, lastIndex, segments) ==
  LET Pushed(match) ==
        IF ~match.found
        THEN segments \o (IF lastIndex < Len(text) THEN CodePoints(Slice(text, lastIndex, Len(text))) ELSE <<>>)
        ELSE SegmentLoop(regex, text, match.end, match.end,
               segments \o (IF match.index > lastIndex THEN CodePoints(Slice(text, lastIndex, match.index)) ELSE <<>>) \o <<Slice(text, match.index, match.end)>>)
  IN Pushed(Exec(regex, text, cursor))

\* the segments visualSliceHelper indexes, the cursor of SIMPLE_EMOJI_REGEX being at cursor
Segments(text, cursor) == SegmentLoop("SIMPLE", text, ResetLastIndex(cursor), 0, <<>>)

\* visualSliceHelper: the index normalization, [from, to) over the segments
SliceBounds(totalLength, start, end) ==
  LET normalizedStart == IF start < 0 THEN Max(0, totalLength + start) ELSE start
      normalizedEnd == IF ~end.def THEN totalLength ELSE IF end.v < 0 THEN Max(0, totalLength + end.v) ELSE end.v
  IN [from |-> Max(0, Min(normalizedStart, totalLength)), to |-> Max(0, Min(normalizedEnd, totalLength))]

\* visualSliceHelper, with the module-level state g it starts in
visualSliceHelperG(text, start, end, g) ==
  IF text = <<>> THEN [val |-> <<>>, g |-> g]
  ELSE LET Sliced(segments) ==
             LET totalLength == Len(segments)
                 b == SliceBounds(totalLength, start, end)
                 g1 == [g EXCEPT !.simple = ResetLastIndex(0)]
             IN IF start >= totalLength THEN [val |-> <<>>, g |-> g1]
                ELSE IF b.from >= b.to THEN [val |-> <<>>, g |-> g1]
                ELSE [val |-> Join(SubSeq(segments, b.from + 1, b.to)), g |-> g1]
       IN Sliced(Segments(text, g.simple))

visualSliceHelper(text, start, end) == visualSliceHelperG(text, start, end, FreshGlobals).val

\* getCharWidth: char is one code unit, or <<>> for normalized[charIndex] || ""
getCharWidth(char, charWidth, allShortCharacters, allLongCharacters) ==
  IF char = <<"sp">> THEN RMul(charWidth, Half)
  ELSE IF char \in allShortCharacters THEN RMul(charWidth, Half)
  ELSE IF char \in allLongCharacters THEN RMul(charWidth, OneAndHalf)
  ELSE charWidth

\* normalized[index] || ""
UnitAt(normalized, index) == IF index >= 0 /\ index < Len(normalized) THEN <<normalized[index + 1]>> ELSE <<>>

\* the loop that marks the visual positions of the emoji (helper.ts 324-334
\* and 418-431): the positions, and the local lastIndex and visualPos it ends with
RECURSIVE MarkEmoji(_, _, _, _, _)
MarkEmoji(normalized, cursor, lastIndex, visualPos, emojiPositions) ==
  LET Marked(match) ==
        IF ~match.found
        THEN [emojiPositions |-> emojiPositions, lastIndex |-> lastIndex, visualPos |-> visualPos]
        ELSE LET pos == visualPos + (IF lastIndex < match.index THEN match.index - lastIndex ELSE 0)
             IN MarkEmoji(normalized, match.end, match.end, pos + 1, emojiPositions \cup {pos})
  IN Marked(Exec("EMOJI", normalized, cursor))

\* "Get the actual character at this visual position" (helper.ts 454-491, and
\* 503-529 for position i - 1): the index of the code unit at visual position
\* pos, and the cursor the loop leaves EMOJI_REGEX with
RECURSIVE CharIndexLoop(_, _, _, _, _, _)
CharIndexLoop(normalized, pos, cursor, lastIndex, currentVisualPos, charIndex) ==
  LET Looked(match) ==
        IF ~match.found
        THEN LET d == Min(Len(normalized) - lastIndex, pos - currentVisualPos)
             IN IF lastIndex < Len(normalized) /\ currentVisualPos <= pos /\ lastIndex + d < Len(normalized)
                THEN [charIndex |-> lastIndex + d, cursor |-> 0]
                ELSE [charIndex |-> charIndex, cursor |-> 0]
        ELSE LET d == IF lastIndex < match.index THEN Min(match.index - lastIndex, pos - currentVisualPos) ELSE 0
             IN IF currentVisualPos + d = pos
                THEN [charIndex |-> lastIndex + d, cursor |-> match.end]
                ELSE CharIndexLoop(normalized, pos, match.end, match.end, currentVisualPos + d + 1, charIndex)
  IN Looked(Exec("EMOJI", normalized, cursor))

CharIndexAt(normalized, pos, cursor) == CharIndexLoop(normalized, pos, cursor, 0, 0, 0)

\* the monospaced branch's "Get the actual character at this position"
\* (helper.ts 346-368) for visual position pos = i - 1: the index found, and
\* the cursor the loop leaves EMOJI_REGEX with
RECURSIVE MonoCharIndexLoop(_, _, _, _, _, _)
MonoCharIndexLoop(normalized, pos, cursor, lastIndex, visualIndex, charIndex) ==
  LET Looked(match) ==
        LET regularChars == match.index - lastIndex
            visualIndex2 == IF match.index > lastIndex THEN visualIndex + regularChars ELSE visualIndex
        IN IF ~match.found THEN [charIndex |-> charIndex, cursor |-> 0]
           ELSE IF match.index > lastIndex /\ visualIndex + regularChars > pos THEN [charIndex |-> lastIndex + (pos - visualIndex), cursor |-> match.end]
           ELSE IF visualIndex2 = pos THEN [charIndex |-> match.index, cursor |-> match.end]
           ELSE MonoCharIndexLoop(normalized, pos, match.end, match.end, visualIndex2 + 1, match.end)
  IN Looked(Exec("EMOJI", normalized, cursor))

MonoCharIndexAt(normalized, pos, cursor) == MonoCharIndexLoop(normalized, pos, ResetLastIndex(cursor), 0, 0, 0)

\* "Check for trailing space optimization", monospaced branch (helper.ts
\* 344-373): whether the cut is extended, and the cursor left
MonoTrailingSpace(normalized, i, emojiPositions, cursor) ==
  IF i > 0 /\ (i - 1) \notin emojiPositions
  THEN LET Checked(found) == [space |-> found.charIndex < Len(normalized) /\ UnitAt(normalized, found.charIndex) = <<"sp">>, cursor |-> found.cursor]
       IN Checked(MonoCharIndexAt(normalized, i - 1, cursor))
  ELSE [space |-> FALSE, cursor |-> cursor]

\* "Check for trailing space optimization", proportional branch (helper.ts
\* 501-534): whether the cut is extended, and the cursor left
TrailingSpace(normalized, i, emojiPositions, cursor) ==
  IF i > 0 /\ (i - 1) \notin emojiPositions
  THEN LET Checked(found) == [space |-> UnitAt(normalized, found.charIndex) = <<"sp">>, cursor |-> found.cursor]
       IN Checked(CharIndexAt(normalized, i - 1, ResetLastIndex(cursor)))
  ELSE [space |-> FALSE, cursor |-> cursor]

\* mutant: nothing dropped
DropNothing(totalLength) == 0

\* "return -totalLength" / "return -totalVisualLength": the target was not reached
DropEverything(totalLength) == -totalLength

\* the monospaced scan "for (let i = totalLength - 1; i >= 0; i--)" (helper.ts
\* 337-381): the value returned and the cursor at the return; and, of the
\* scan itself, the number of iterations made (slicePosition before the
\* trailing-space check), the position i at which accumulatedWidth reached
\* targetWidth (-1 if it never did) and whether the check added one
RECURSIVE MonoScan(_, _, _, _, _, _, _, _)
MonoScan(normalized, charWidth, targetWidth, emojiPositions, totalLength, i, accumulatedWidth, slicePosition) ==
  IF i < 0 THEN [val |-> DropEverything(totalLength), cursor |-> ResetLastIndex(0), consumed |-> slicePosition, at |-> -1, extended |-> FALSE]
  ELSE LET Step(acc) ==
             IF RLe(targetWidth, acc)
             THEN LET Cut(trailing) == [val |-> -(slicePosition + 1 + (IF trailing.space THEN 1 ELSE 0)), cursor |-> ResetLastIndex(trailing.cursor),
                                        consumed |-> slicePosition + 1, at |-> i, extended |-> trailing.space]
                  IN Cut(MonoTrailingSpace(normalized, i, emojiPositions, 0))
             ELSE MonoScan(normalized, charWidth, targetWidth, emojiPositions, totalLength, i - 1, acc, slicePosition + 1)
       IN Step(RAdd(accumulatedWidth, IF i \in emojiPositions THEN RMul(charWidth, Two) ELSE charWidth))

\* the proportional scan "for (let i = totalVisualLength - 1; i >= 0; i--)"
\* (helper.ts 446-542): the value returned and the cursor at the return; cursor
\* is the lastIndex of EMOJI_REGEX, which the look-up of one iteration leaves
\* to the next
RECURSIVE PropScan(_, _, _, _, _, _, _, _, _, _, _)
PropScan(normalized, charWidth, targetWidth, emojiPositions, allShort, allLong, totalVisualLength, i, accumulatedWidth, slicePosition, cursor) ==
  IF i < 0 THEN [val |-> DropEverything(totalVisualLength), cursor |-> ResetLastIndex(cursor), consumed |-> slicePosition, at |-> -1, extended |-> FALSE]
  ELSE LET Step(acc, cursor2) ==
             IF RLe(targetWidth, acc)
             THEN LET Cut(trailing) == [val |-> -(slicePosition + 1 + (IF trailing.space THEN 1 ELSE 0)), cursor |-> ResetLastIndex(trailing.cursor),
                                        consumed |-> slicePosition + 1, at |-> i, extended |-> trailing.space]
                  IN Cut(TrailingSpace(normalized, i, emojiPositions, cursor2))
             ELSE PropScan(normalized, charWidth, targetWidth, emojiPositions, allShort, allLong, totalVisualLength, i - 1, acc, slicePosition + 1, cursor2)
           Measure(found) ==
             IF i \in emojiPositions THEN Step(RAdd(accumulatedWidth, RMul(charWidth, Two)), cursor)
             ELSE Step(RAdd(accumulatedWidth, getCharWidth(UnitAt(normalized, found.charIndex), charWidth, allShort, allLong)), found.cursor)
       IN Measure(CharIndexAt(normalized, i, cursor))

\* no scan was made
NoScan == [consumed |-> 0, at |-> -1, extended |-> FALSE]

\* mutant: the early return for the empty text alone
NothingToRemoveEmptyOnly(text, targetWidth) == text = <<>>

\* "if (!text || targetWidth <= 0) return 0"
NothingToRemove(text, targetWidth) == text = <<>> \/ targetWidth.n <= 0

\* calculateSlicePositionHelper, with the module-level state g it starts in
calculateSlicePositionHelperG(text, charWidth, targetWidth, isMonospaced, customShortCharacters, customLongCharacters, g) ==
  IF NothingToRemove(text, targetWidth) THEN [val |-> 0, g |-> g, scan |-> NoScan]
  ELSE LET Position(norm) ==
             LET Result(scan) == [val |-> scan.val, g |-> [g EXCEPT !.emoji = scan.cursor, !.cache = norm.cache],
                                  scan |-> [consumed |-> scan.consumed, at |-> scan.at, extended |-> scan.extended]]
                 Mono(totalLength, monoMarked) ==
                   Result(MonoScan(norm.val, charWidth, targetWidth, monoMarked.emojiPositions, totalLength, totalLength - 1, RInt(0), 0))
                 Proportional(marked) ==
                   LET totalVisualLength == marked.visualPos + (IF marked.lastIndex < Len(norm.val) THEN Len(norm.val) - marked.lastIndex ELSE 0)
                   IN Result(PropScan(norm.val, charWidth, targetWidth, marked.emojiPositions,
                                      customShortCharacters \cup SHORT_CHARACTERS, customLongCharacters \cup LONG_CHARACTERS,
                                      totalVisualLength, totalVisualLength - 1, RInt(0), 0, ResetLastIndex(0)))
             IN IF isMonospaced
                THEN Mono(CountUnits(norm.val, ResetLastIndex(g.emoji), 0, 0, 0).visualLength, MarkEmoji(norm.val, ResetLastIndex(0), 0, 0, {}))
                ELSE Proportional(MarkEmoji(norm.val, ResetLastIndex(g.emoji), 0, 0, {}))
       IN Position(getNormalizedString(text, g.cache))

calculateSlicePositionHelper(text, charWidth, targetWidth, isMonospaced, customShortCharacters, customLongCharacters) == calculateSlicePositionHelperG(text, charWidth, targetWidth, isMonospaced, customShortCharacters, customLongCharacters, FreshGlobals).val

\* the sum of getCharWidth over the code units normalized[from .. to - 1]
RECURSIVE RegularWidth(_, _, _, _, _, _)
RegularWidth(normalized, from, to, charWidth, allShort, allLong) ==
  IF from >= to THEN RInt(0)
  ELSE RAdd(getCharWidth(UnitAt(normalized, from), charWidth, allShort, allLong), RegularWidth(normalized, from + 1, to, charWidth, allShort, allLong))

\* the loops of calculateStringWidthHelper over the matches of EMOJI_REGEX
\* (helper.ts 576-590 monospaced, 628-646 proportional)
RECURSIVE WidthLoop(_, _, _, _, _, _, _, _)
WidthLoop(normalized, cursor, lastIndex, totalWidth, charWidth, isMonospaced, allShort, allLong) ==
  LET Added(match) ==
        LET upto == IF match.found THEN match.index ELSE Len(normalized)
            Sum(regular) ==
              IF ~match.found THEN RAdd(totalWidth, regular)
              ELSE WidthLoop(normalized, match.end, match.end, RAdd(RAdd(totalWidth, regular), RMul(charWidth, Two)), charWidth, isMonospaced, allShort, allLong)
        IN Sum(IF upto <= lastIndex THEN RInt(0)
               ELSE IF isMonospaced THEN RMul(RInt(upto - lastIndex), charWidth)
               ELSE RegularWidth(normalized, lastIndex, upto, charWidth, allShort, allLong))
  IN Added(Exec("EMOJI", normalized, cursor))

\* calculateStringWidthHelper, with the module-level state g it starts in
calculateStringWidthHelperG(text, charWidth, isMonospaced, customShortCharacters, customLongCharacters, g) ==
  IF text = <<>> THEN [val |-> RInt(0), g |-> g]
  ELSE LET Width(norm) ==
             [val |-> WidthLoop(norm.val, ResetLastIndex(g.emoji), 0, RInt(0), charWidth, isMonospaced,
                                customShortCharacters \cup SHORT_CHARACTERS, customLongCharacters \cup LONG_CHARACTERS),
              g |-> [g EXCEPT !.emoji = ResetLastIndex(0), !.cache = norm.cache]]
       IN Width(getNormalizedString(text, g.cache))

calculateStringWidthHelper(text, charWidth, isMonospaced, customShortCharacters, customLongCharacters) == calculateStringWidthHelperG(text, charWidth, isMonospaced, customShortCharacters, customLongCharacters, FreshGlobals).val

\* mutant: no balance between the classes
balanceDiffNone(numOfEmojis, numOfShortCharacters, numOfLongCharacters) == RInt(0)

\* balanceDiffHelper
balanceDiffHelper(numOfEmojis, numOfShortCharacters, numOfLongCharacters) == RSub(RAdd(RInt(numOfEmojis), RMul(Half, RInt(numOfLongCharacters))), RMul(Half, RInt(numOfShortCharacters)))

(***************************************************************************)
(* calculateTruncatedText of the two components.  A line of the text       *)
(* layout event is [text, width]; widths are whole pixels.                 *)
(***************************************************************************)

ShowMore == <<"S", "h", "o", "w", "sp", "m", "o", "r", "e">>
ShowLess == <<"S", "h", "o", "w", "sp", "l", "e", "s", "s">>
\* the "... " that precedes the label (rnShowMoreText.tsx) or ends the
\* truncated text (rnShowMoreText.ios.tsx)
Ellipsis == <<"dot", "dot", "dot", "sp">>

\* readMoreText || "Show more"; an absent prop is the empty string
LabelOrDefault(readMoreText) == IF readMoreText = <<>> THEN ShowMore ELSE readMoreText

\* rnShowMoreText.tsx: `... ${(readMoreText || "Show more").trim()}`
readMoreTextContent(readMoreText) == Ellipsis \o Trim(LabelOrDefault(readMoreText))

\* rnShowMoreText.ios.tsx: (readMoreText || "Show more").length + compensationSpaceIos
readMoreTextLength(readMoreText, compensationSpaceIos) == Len(LabelOrDefault(readMoreText)) + compensationSpaceIos

\* the texts of the first numberOfLines lines, concatenated
RECURSIVE ConcatLines(_, _)
ConcatLines(textLines, numberOfLines) == IF numberOfLines = 0 THEN <<>> ELSE ConcatLines(textLines, numberOfLines - 1) \o textLines[numberOfLines].text

\* rnShowMoreText.tsx 795-837: avgCharWidth, from the module-level state g
avgCharWidthG(lastRow, shortWidthCharacters, longWidthCharacters, g) ==
  LET lastRowForWidthCalc == StripNewline(lastRow.text)
      Average(measured) ==
        LET lastRowVisualLength == measured.val
            base == IF lastRowVisualLength.visualLength > 0 THEN Rat(lastRow.width, lastRowVisualLength.visualLength) ELSE RInt(0)
            Balanced(balance) ==
              IF RIsZero(balance) THEN base
              ELSE RMul(base, IF balance.n < 0 THEN RAdd(RInt(1), RDivInt(RAbs(balance), lastRowVisualLength.visualLength))
                              ELSE RSub(RInt(1), RDivInt(RAbs(balance), lastRowVisualLength.visualLength)))
        IN [val |-> Balanced(balanceDiffHelper(lastRowVisualLength.emojiCount, lastRowVisualLength.shortCharCount, lastRowVisualLength.longCharCount)),
            g |-> measured.g]
  IN Average(getVisualLengthHelperG(lastRowForWidthCalc, shortWidthCharacters, longWidthCharacters, g))

avgCharWidth(lastRow, shortWidthCharacters, longWidthCharacters) == avgCharWidthG(lastRow, shortWidthCharacters, longWidthCharacters, FreshGlobals).val

\* avgCharWidth || 1
OrOne(x) == IF RIsZero(x) THEN RInt(1) ELSE x

\* rnShowMoreText.tsx 795-872: sliceEndOffset, from the module-level state g;
\* used records the character width estimated for the last visible row (avg),
\* the one handed to calculateStringWidthHelper (cost) and the one handed to
\* calculateSlicePositionHelper (scan, scanned when its loop ran)
sliceEndOffsetG(textLines, containerWidth, env, g) ==
  LET lastRow == textLines[env.numberOfLines]
      Offset(avg) ==
        LET Fit(readMoreWidth) ==
              IF RLe(RInt(lastRow.width), RSub(RInt(containerWidth), readMoreWidth.val))
              THEN [val |-> Undefined, g |-> readMoreWidth.g, used |-> [avg |-> avg.val, cost |-> OrOne(avg.val), scanned |-> FALSE, scan |-> avg.val]]
              ELSE LET Cut(position) == [val |-> Some(position.val), g |-> position.g,
                                         used |-> [avg |-> avg.val, cost |-> OrOne(avg.val), scanned |-> position.scan # NoScan, scan |-> avg.val]]
                   IN Cut(calculateSlicePositionHelperG(StripNewline(lastRow.text), avg.val,
                                                        RAdd(readMoreWidth.val, RMul(RInt(env.compensationSpace), avg.val)),
                                                        env.isMonospaced, env.shortWidthCharacters, env.longWidthCharacters, readMoreWidth.g))
        IN Fit(calculateStringWidthHelperG(readMoreTextContent(env.readMoreText), OrOne(avg.val), env.isMonospaced,
                                           env.shortWidthCharacters, env.longWidthCharacters, avg.g))
  IN Offset(avgCharWidthG(lastRow, env.shortWidthCharacters, env.longWidthCharacters, g))

sliceEndOffset(textLines, containerWidth, env) == sliceEndOffsetG(textLines, containerWidth, env, FreshGlobals).val

\* sliceEndOffset ? sliceEndOffset : undefined
Truthy(offset) == IF offset.def /\ offset.v # 0 THEN offset ELSE Undefined

\* rnShowMoreText.tsx 786-881: the text stored in truncatedTextRef when
\* textLines.length > numberOfLines, from the module-level state g
truncatedTextAndroidG(textLines, containerWidth, env, g) ==
  LET Stored(sliced) == [val |-> Trim(sliced.val), g |-> sliced.g]
      Sliced(offset) == Stored(visualSliceHelperG(StripNewline(ConcatLines(textLines, env.numberOfLines)), 0, Truthy(offset.val), offset.g))
  IN Sliced(sliceEndOffsetG(textLines, containerWidth, env, g))

\* mutant: the slice stored without .trim()
truncatedTextAndroidUntrimmed(textLines, containerWidth, env) ==
  visualSliceHelper(StripNewline(ConcatLines(textLines, env.numberOfLines)), 0, Truthy(sliceEndOffset(textLines, containerWidth, env)))

truncatedTextAndroid(textLines, containerWidth, env) == truncatedTextAndroidG(textLines, containerWidth, env, FreshGlobals).val

\* Math.ceil of a rational
Ceil(x) == -((-x.n) \div x.d)

\* textWithoutNewline.length of line i is 0: the division of 144-146 does not
\* give a finite number
RowIsEmpty(textLines, numberOfLines) == \E i \in 1..numberOfLines : StripNewline(textLines[i].text) = <<>>

\* the sum of the rows' average character widths (rnShowMoreText.ios.tsx 135-153)
RECURSIVE SumCharWidths(_, _)
SumCharWidths(textLines, numberOfLines) ==
  IF numberOfLines = 0 THEN RInt(0)
  ELSE RAdd(SumCharWidths(textLines, numberOfLines - 1), Rat(textLines[numberOfLines].width, Len(StripNewline(textLines[numberOfLines].text))))

\* rnShowMoreText.ios.tsx 132-180: the text stored in truncatedTextRef when
\* textLines.length >= numberOfLines.  With an empty row the average is
\* Infinity or NaN, the comparison of 174 is false and slice(0, NaN) is empty.
truncatedTextIos(textLines, containerWidth, env) ==
  LET visibleText == StripNewline(ConcatLines(textLines, env.numberOfLines))
      lastLineWidth == RInt(textLines[env.numberOfLines].width)
      Cut(averageCharacterWidth) ==
        LET Fit(targetLastLineWidth) ==
              IF RLe(lastLineWidth, targetLastLineWidth) THEN Trim(visibleText) \o Ellipsis
              ELSE LET Excess(over) == Ceil(Rat(over.n * averageCharacterWidth.d, over.d * averageCharacterWidth.n))
                   IN Trim(Slice(visibleText, 0, Max(0, Len(visibleText) - Excess(RSub(lastLineWidth, targetLastLineWidth))))) \o Ellipsis
        IN Fit(RSub(RInt(containerWidth), RMul(averageCharacterWidth, RInt(readMoreTextLength(env.readMoreText, env.compensationSpace)))))
  IN IF RowIsEmpty(textLines, env.numberOfLines) THEN Ellipsis
     ELSE Cut(RDivInt(SumCharWidths(textLines, env.numberOfLines), env.numberOfLines))

\* the comparison that decides for truncation: textLines.length > numberOfLines
\* (rnShowMoreText.tsx 786), textLines.length >= numberOfLines (rnShowMoreText.ios.tsx 131)
ExceedsLines(platform, length, numberOfLines) == IF platform = "ios" THEN length >= numberOfLines ELSE length > numberOfLines

truncatedText(platform, textLines, containerWidth, env) ==
  IF platform = "ios" THEN truncatedTextIos(textLines, containerWidth, env) ELSE truncatedTextAndroid(textLines, containerWidth, env)

(***************************************************************************)
(* The component: props, state and refs of RNShowMoreTextComponent, what   *)
(* the last render put on screen, and the host that lays the text out      *)
(***************************************************************************)
VARIABLES
  platform,                  \* "android": rnShowMoreText.tsx, "ios": rnShowMoreText.ios.tsx
  children, numberOfLines, style, readMoreText, compensationSpace, isMonospaced,   \* props
  isNeedReadMore, isShowingFullText, fullTextRef, truncatedTextRef,
  containerWidthRef, textLinesRef, isCalculationCompleteRef, hasPropsChangedRef, oldChildren,
  textLayoutEnv,             \* the props that calculateTruncatedText sees when onTextLayoutHandler calls it
  containerLayoutEnv,        \* the props that calculateTruncatedText sees when onContainerLayout calls it
  shown,                     \* the output of the last render
  changes                    \* number of props changes so far

compVars == <<platform, children, numberOfLines, style, readMoreText, compensationSpace, isMonospaced,
              isNeedReadMore, isShowingFullText, fullTextRef, truncatedTextRef,
              containerWidthRef, textLinesRef, isCalculationCompleteRef, hasPropsChangedRef, oldChildren,
              textLayoutEnv, containerLayoutEnv, shown, changes>>

\* the module-level state of helper.ts and the last helper call, for the
\* specifications that call the helpers directly
VARIABLES globals, call, result

fnVars == <<globals, call, result>>
vars == <<compVars, fnVars>>

NoCall == [fn |-> "none"]
FnIdle == globals = FreshGlobals /\ call = NoCall /\ result = <<>>

(***************************************************************************)
(* The host: it lays a text out in rows of perLine grapheme clusters (a    *)
(* row also ends after a newline), never breaks inside a cluster, and      *)
(* reports every row with the same width.                                  *)
(***************************************************************************)
HostClusters(text) == SegmentLoop("EMOJI", text, 0, 0, <<>>)

RECURSIVE WrapLoop(_, _, _, _)
WrapLoop(clusters, perLine, current, count) ==
  IF clusters = <<>> THEN (IF current = <<>> THEN <<>> ELSE <<current>>)
  ELSE IF Head(clusters) = <<"nl">> \/ count + 1 = perLine
       THEN <<current \o Head(clusters)>> \o WrapLoop(Tail(clusters), perLine, <<>>, 0)
       ELSE WrapLoop(Tail(clusters), perLine, current \o Head(clusters), count + 1)

\* event.nativeEvent.lines of a text layout event
Layout(text, perLine, lineWidth) ==
  LET Reported(rows) == [i \in 1..Len(rows) |-> [text |-> rows[i], width |-> lineWidth]]
  IN Reported(WrapLoop(HostClusters(text), perLine, <<>>, 0))

(***************************************************************************)
(* The inputs of the component model                                       *)
(***************************************************************************)
Flag == RI \o RI
Platforms == {"android", "ios"}
Children == {
  <<"a", "b">>,
  <<"a", "b">> \o Flag \o <<"c", "d", "e", "f", "g">>,
  <<"a", "sp", "b", "c", "d", "sp", "e", "f">> }
LineLimits == {1, 2}
Styles == {"s1", "s2"}
Labels == {<<>>, <<"x">>}
Compensations == {0, 1}
PerLine == {2, 4}
LineWidths == {100, 300}
ContainerWidths == {0, 300}
MaxChanges == 1

Env(n, label, compensation, monospaced) ==
  [numberOfLines |-> n, readMoreText |-> label, compensationSpace |-> compensation, isMonospaced |-> monospaced,
   shortWidthCharacters |-> {}, longWidthCharacters |-> {}]

(***************************************************************************)
(* Render: the JSX returned by RNShowMoreTextComponent                     *)
(***************************************************************************)
\* rnShowMoreText.tsx 745, 962-1000
RenderAndroid(kids, old, fullText, needReadMore, showingFull, propsChanged, n, complete) ==
  LET isNeedTrigger == old # kids
  IN [text |-> IF isNeedTrigger THEN kids ELSE fullText,
      label |-> IF ~isNeedTrigger /\ needReadMore THEN (IF showingFull THEN "less" ELSE "more") ELSE "none",
      cap |-> IF needReadMore /\ ~propsChanged THEN 0 ELSE n,
      measuring |-> TRUE,
      visible |-> ~isNeedTrigger /\ complete]

\* rnShowMoreText.ios.tsx 246-294
RenderIos(kids, old, fullText, needReadMore, showingFull, propsChanged, n, complete) ==
  [text |-> fullText,
   label |-> IF needReadMore THEN (IF showingFull THEN "less" ELSE "more") ELSE "none",
   cap |-> IF needReadMore /\ ~propsChanged THEN 0 ELSE n,
   measuring |-> ~complete,
   visible |-> complete]

Render(p, kids, old, fullText, needReadMore, showingFull, propsChanged, n, complete) ==
  IF p = "ios" THEN RenderIos(kids, old, fullText, needReadMore, showingFull, propsChanged, n, complete)
  ELSE RenderAndroid(kids, old, fullText, needReadMore, showingFull, propsChanged, n, complete)

\* the text of the label the render shows
LabelText(p, label, readMore) ==
  IF label = "none" THEN <<>>
  ELSE IF label = "less" THEN <<"sp">> \o ShowLess
  ELSE IF p = "ios" THEN LabelOrDefault(readMore) ELSE readMoreTextContent(readMore)

\* the text of the <Text> that carries onTextLayout and onLayout: the visible
\* text with its label (rnShowMoreText.tsx 963-999), the hidden text with the
\* children (rnShowMoreText.ios.tsx 283-292)
MeasuredText == IF platform = "ios" THEN children ELSE shown.text \o LabelText(platform, shown.label, readMoreText)

(***************************************************************************)
(* The component's operations                                              *)
(***************************************************************************)

\* mutant: the test with && for ||
SkipCalculationBoth(textLines, containerWidth) == textLines = <<>> /\ containerWidth = 0

\* calculateTruncatedText's first test: "Skip calculation if we don't have
\* necessary layout information"
SkipCalculation(textLines, containerWidth) == textLines = <<>> \/ containerWidth = 0

\* calculateTruncatedText, called with the refs holding textLines and
\* containerWidth, and closed over the props of env
calculateTruncatedText(textLines, containerWidth, env) ==
  /\ textLinesRef' = textLines
  /\ containerWidthRef' = containerWidth
  /\ IF SkipCalculation(textLines, containerWidth)
     THEN UNCHANGED <<isCalculationCompleteRef, hasPropsChangedRef, truncatedTextRef, fullTextRef, isNeedReadMore, shown>>
     ELSE /\ isCalculationCompleteRef' = TRUE
          /\ hasPropsChangedRef' = FALSE
          /\ IF ExceedsLines(platform, Len(textLines), env.numberOfLines)
             THEN /\ truncatedTextRef' = truncatedText(platform, textLines, containerWidth, env)
                  /\ fullTextRef' = truncatedTextRef'
                  /\ isNeedReadMore' = TRUE
             ELSE /\ UNCHANGED <<truncatedTextRef, fullTextRef>>
                  /\ isNeedReadMore' = FALSE
          /\ shown' = Render(platform, children, oldChildren, fullTextRef', isNeedReadMore', isShowingFullText, FALSE, numberOfLines, TRUE)

\* the state after the first render and its layout effect, for children
\* drawn from texts
MountOf(texts) ==
  /\ platform \in Platforms
  /\ children \in texts
  /\ numberOfLines \in LineLimits
  /\ style = "s1"
  /\ readMoreText \in Labels
  /\ compensationSpace \in Compensations
  /\ isMonospaced = FALSE
  /\ isNeedReadMore = FALSE
  /\ isShowingFullText = FALSE
  /\ fullTextRef = children
  /\ truncatedTextRef = children
  /\ containerWidthRef = 0
  /\ textLinesRef = <<>>
  /\ isCalculationCompleteRef = FALSE
  /\ hasPropsChangedRef = TRUE
  /\ oldChildren = children
  /\ textLayoutEnv = Env(numberOfLines, readMoreText, compensationSpace, isMonospaced)
  /\ containerLayoutEnv = Env(numberOfLines, readMoreText, compensationSpace, isMonospaced)
  /\ shown = Render(platform, children, children, children, FALSE, FALSE, platform = "ios", numberOfLines, FALSE)
  /\ changes = 0

Mount == MountOf(Children)

\* the dependencies of the layout effect changed
EffectDepsChanged == children' # children \/ style' # style \/ numberOfLines' # numberOfLines

\* the callbacks that useCallback creates anew in a render with new props,
\* and the props their calculateTruncatedText is closed over
RecreateCallbacks ==
  LET env == Env(numberOfLines', readMoreText', compensationSpace', isMonospaced')
  IN IF platform = "ios"
     THEN /\ textLayoutEnv' = IF readMoreTextLength(readMoreText', compensationSpace') # readMoreTextLength(readMoreText, compensationSpace) THEN env ELSE textLayoutEnv
          /\ containerLayoutEnv' = containerLayoutEnv
     ELSE /\ textLayoutEnv' = IF numberOfLines' # numberOfLines \/ readMoreTextContent(readMoreText') # readMoreTextContent(readMoreText) \/ compensationSpace' # compensationSpace
                              THEN env ELSE textLayoutEnv
          /\ containerLayoutEnv' = IF numberOfLines' # numberOfLines THEN env ELSE containerLayoutEnv

\* a render with new props, and the layout effect when its dependencies changed
Rerender ==
  /\ changes < MaxChanges
  /\ changes' = changes + 1
  /\ UNCHANGED <<platform, isNeedReadMore, truncatedTextRef>>
  /\ RecreateCallbacks
  /\ IF EffectDepsChanged
     THEN /\ isCalculationCompleteRef' = FALSE
          /\ hasPropsChangedRef' = TRUE
          /\ fullTextRef' = children'
          /\ textLinesRef' = <<>>
          /\ oldChildren' = children'
          /\ IF platform = "ios"
             THEN /\ containerWidthRef' = 0
                  /\ UNCHANGED isShowingFullText
                  /\ shown' = RenderIos(children', oldChildren', fullTextRef', isNeedReadMore, isShowingFullText, TRUE, numberOfLines', FALSE)
             ELSE /\ isShowingFullText' = FALSE
                  /\ UNCHANGED containerWidthRef
                  /\ shown' = RenderAndroid(children', oldChildren, fullTextRef, isNeedReadMore, isShowingFullText, hasPropsChangedRef, numberOfLines', isCalculationCompleteRef)
     ELSE /\ UNCHANGED <<isCalculationCompleteRef, hasPropsChangedRef, fullTextRef, textLinesRef, oldChildren, containerWidthRef, isShowingFullText>>
          /\ shown' = Render(platform, children', oldChildren, fullTextRef, isNeedReadMore, isShowingFullText, hasPropsChangedRef, numberOfLines', isCalculationCompleteRef)

ChangeChildren == \E c \in Children \ {children} : children' = c /\ UNCHANGED <<numberOfLines, style, readMoreText, compensationSpace, isMonospaced>> /\ Rerender /\ UNCHANGED fnVars
ChangeNumberOfLines == \E n \in LineLimits \ {numberOfLines} : numberOfLines' = n /\ UNCHANGED <<children, style, readMoreText, compensationSpace, isMonospaced>> /\ Rerender /\ UNCHANGED fnVars
ChangeStyle == \E st \in Styles \ {style} : style' = st /\ UNCHANGED <<children, numberOfLines, readMoreText, compensationSpace, isMonospaced>> /\ Rerender /\ UNCHANGED fnVars
ChangeReadMoreText == \E l \in Labels \ {readMoreText} : readMoreText' = l /\ UNCHANGED <<children, numberOfLines, style, compensationSpace, isMonospaced>> /\ Rerender /\ UNCHANGED fnVars
ChangeCompensation == \E c \in Compensations \ {compensationSpace} : compensationSpace' = c /\ UNCHANGED <<children, numberOfLines, style, readMoreText, isMonospaced>> /\ Rerender /\ UNCHANGED fnVars
ChangeMonospaced == platform = "android" /\ isMonospaced' = ~isMonospaced /\ UNCHANGED <<children, numberOfLines, style, readMoreText, compensationSpace>> /\ Rerender /\ UNCHANGED fnVars

props == <<platform, children, numberOfLines, style, readMoreText, compensationSpace, isMonospaced>>

\* onTextLayoutHandler, for the lines the host reports
\* mutant: the handlers compute again after the calculation is complete
NeverComplete(complete) == FALSE

\* "Skip if calculation is already complete"
AlreadyComplete(complete) == complete

onTextLayoutHandler(lines) ==
  /\ shown.measuring
  /\ UNCHANGED <<props, isShowingFullText, oldChildren, textLayoutEnv, containerLayoutEnv, changes>>
  /\ IF AlreadyComplete(isCalculationCompleteRef)
     THEN UNCHANGED <<textLinesRef, containerWidthRef, isCalculationCompleteRef, hasPropsChangedRef, truncatedTextRef, fullTextRef, isNeedReadMore, shown>>
     ELSE calculateTruncatedText(lines, containerWidthRef, textLayoutEnv)
  /\ UNCHANGED fnVars

TextLayout == \E perLine \in PerLine, lineWidth \in LineWidths : onTextLayoutHandler(Layout(MeasuredText, perLine, lineWidth))
\* event.nativeEvent?.lines || []
TextLayoutNoLines == onTextLayoutHandler(<<>>)

\* onContainerLayout, for the width the host reports
onContainerLayout(width) ==
  /\ shown.measuring
  /\ UNCHANGED <<props, isShowingFullText, oldChildren, textLayoutEnv, containerLayoutEnv, changes>>
  /\ IF AlreadyComplete(isCalculationCompleteRef)
     THEN UNCHANGED <<textLinesRef, containerWidthRef, isCalculationCompleteRef, hasPropsChangedRef, truncatedTextRef, fullTextRef, isNeedReadMore, shown>>
     ELSE calculateTruncatedText(textLinesRef, width, containerLayoutEnv)
  /\ UNCHANGED fnVars

ContainerLayout == \E width \in ContainerWidths : onContainerLayout(width)

\* toggleTextExpansion: a press on the label
toggleTextExpansion ==
  /\ shown.label # "none"
  /\ fullTextRef' = IF isShowingFullText THEN truncatedTextRef ELSE children
  /\ isShowingFullText' = ~isShowingFullText
  /\ shown' = Render(platform, children, oldChildren, fullTextRef', isNeedReadMore, isShowingFullText', hasPropsChangedRef, numberOfLines, isCalculationCompleteRef)
  /\ UNCHANGED <<props, isNeedReadMore, truncatedTextRef, containerWidthRef, textLinesRef, isCalculationCompleteRef, hasPropsChangedRef, oldChildren, textLayoutEnv, containerLayoutEnv, changes>>
  /\ UNCHANGED fnVars

Init == Mount /\ FnIdle
Next ==
  \/ ChangeChildren
  \/ ChangeNumberOfLines
  \/ ChangeStyle
  \/ ChangeReadMoreText
  \/ ChangeCompensation
  \/ ChangeMonospaced
  \/ TextLayout
  \/ TextLayoutNoLines
  \/ ContainerLayout
  \/ toggleTextExpansion
Spec == Init /\ [][Next]_vars

(***************************************************************************)
(* Claims about the component                                              *)
(***************************************************************************)
Resolved == isCalculationCompleteRef
ResolvedTruncated == isCalculationCompleteRef /\ isNeedReadMore

EndsWith(s, suffix) == Len(s) >= Len(suffix) /\ SubSeq(s, Len(s) - Len(suffix) + 1, Len(s)) = suffix
NoTrailingWhiteSpace(s) == s = <<>> \/ s[Len(s)] \notin WhiteSpace

\* C1 (as claimed): once a computation has completed on at most numberOfLines
\* reported lines, needsTruncation is false and the displayed text is the full
\* text, on both platforms.
C1_FitsMeansNoTruncation ==
  (Resolved /\ Len(textLinesRef) <= numberOfLines) => (~isNeedReadMore /\ shown.text = children)

\* C2 (as claimed): a change of children, numberOfLines or style returns the
\* engine to Unmeasured and discards the stored lines and the stored container
\* width.
C2_ChangeDiscardsMeasurements ==
  [][EffectDepsChanged => (~isCalculationCompleteRef' /\ textLinesRef' = <<>> /\ containerWidthRef' = 0)]_vars

MeasuredClusters == HostClusters(StripNewline(ConcatLines(textLinesRef, Len(textLinesRef))))
\* the stored truncated text without the ellipsis marker
TruncatedBody == IF platform = "ios" THEN SubSeq(truncatedTextRef, 1, Len(truncatedTextRef) - Len(Ellipsis)) ELSE truncatedTextRef

\* C6 (as claimed): in Resolved(Truncated) the truncated text without its
\* ellipsis is, up to whitespace trimming, a prefix of the measured text that
\* ends on a boundary between visual units.
C6_PrefixOnUnitBoundary ==
  ResolvedTruncated =>
    \E k \in 0..Len(MeasuredClusters) : TruncatedBody = Trim(Join(SubSeq(MeasuredClusters, 1, k)))

\* C7: a handler that finds the stored width 0 or the stored lines empty leaves
\* the calculation-complete flag false and needsTruncation and the truncated
\* text as they were; the flag is set only with both inputs present.
C7_NoResultOnPartialData ==
  [][/\ (~isCalculationCompleteRef /\ (textLinesRef' = <<>> \/ containerWidthRef' = 0))
        => (~isCalculationCompleteRef' /\ isNeedReadMore' = isNeedReadMore /\ truncatedTextRef' = truncatedTextRef)
     /\ (~isCalculationCompleteRef /\ isCalculationCompleteRef')
        => (textLinesRef' # <<>> /\ containerWidthRef' # 0)]_vars

\* C7 witness: before any change of props onContainerLayout stored a width,
\* the lines are still missing and the computation was skipped
C7_PartialDataWitness ==
  changes = 0 /\ containerWidthRef # 0 /\ textLinesRef = <<>> /\ ~isCalculationCompleteRef

\* the text that the display state with the given expanded flag shows
DisplayState(showingFull) == IF showingFull THEN children ELSE truncatedTextRef

\* C14 (as claimed): in Resolved(Truncated) a press on the label flips the
\* expanded flag and shows the children when expanded and the truncated text
\* when collapsed, without a line cap; the display pressed from is itself the
\* one of these two that belongs to its flag, so that a second press restores
\* it; the press leaves the truncated text, the stored lines and width and
\* the result of the computation as they were.
C14_PressToggles ==
  [][(ResolvedTruncated /\ toggleTextExpansion) =>
       /\ isShowingFullText' = ~isShowingFullText
       /\ shown'.text = DisplayState(isShowingFullText') /\ shown'.cap = 0
       /\ shown.text = DisplayState(isShowingFullText) /\ shown.cap = 0
       /\ UNCHANGED <<truncatedTextRef, textLinesRef, containerWidthRef, isNeedReadMore, isCalculationCompleteRef>>]_vars

LayoutEvent == TextLayout \/ TextLayoutNoLines \/ ContainerLayout

LabelMatchesDisplay ==
  /\ shown.label = "less" => shown.text = children
  /\ shown.label = "more" => shown.text = truncatedTextRef

\* C27 (as claimed): in Resolved(Truncated), whatever presses and changes of
\* props came before, the label reads "Show less" only while the full text
\* is displayed and "Show more" only while the truncated text is displayed,
\* and a calculation that completes, as after a change of children while
\* expanded, shows the collapsed label with the newly truncated text.
C27_LabelMatchesDisplay ==
  [][/\ ResolvedTruncated' => LabelMatchesDisplay'
     /\ (~Resolved /\ ResolvedTruncated') => shown'.label = "more"]_vars

\* C27 without a change of props
C27_LabelMatchesDisplayUnchanged ==
  [][changes' = 0 =>
       /\ ResolvedTruncated' => LabelMatchesDisplay'
       /\ (~Resolved /\ ResolvedTruncated') => shown'.label = "more"]_vars

\* the props a closure holds are those of the latest render
UsesCurrentProps(env) ==
  /\ env.numberOfLines = numberOfLines
  /\ env.readMoreText = readMoreText
  /\ env.compensationSpace = compensationSpace

Computes == ~isCalculationCompleteRef /\ isCalculationCompleteRef'

\* C28 (as claimed): every calculation of the truncated text, from the text
\* layout handler or from the container layout handler, uses the
\* numberOfLines, the label text and the compensation of the latest render,
\* never those an earlier render's callback was closed over.
C28_ComputesWithCurrentProps ==
  [][/\ (Computes /\ TextLayout) => UsesCurrentProps(textLayoutEnv)
     /\ (Computes /\ ContainerLayout) => UsesCurrentProps(containerLayoutEnv)]_vars

\* C28 for the text layout handler of rnShowMoreText.tsx alone
C28_AndroidTextLayoutCurrent ==
  [][(platform = "android" /\ Computes /\ TextLayout) => UsesCurrentProps(textLayoutEnv)]_vars

\* what calculateTruncatedText closed over env makes of the lines and the
\* width stored after the step
ResultWith(env) ==
  LET Computed(needsTruncation) ==
        [needsTruncation |-> needsTruncation,
         truncatedText |-> IF needsTruncation THEN truncatedText(platform, textLinesRef', containerWidthRef', env) ELSE truncatedTextRef]
  IN Computed(ExceedsLines(platform, Len(textLinesRef'), env.numberOfLines))

\* a complete calculation stays complete until the props change
ComputesOnce == (isCalculationCompleteRef /\ changes' = changes) => isCalculationCompleteRef'

\* the handler that comes second computes what the other one would have
\* computed from the same lines and width, had it come second
OrderIndependent == Computes => ResultWith(textLayoutEnv) = ResultWith(containerLayoutEnv)

\* C29 (as claimed): between two changes of props the calculation runs at
\* most once, and for the same lines and container width its result is the
\* same whether the text layout or the container layout comes last.
C29_OnceAndOrderIndependent == [][ComputesOnce /\ OrderIndependent]_vars

\* C29, at most once
C29_ComputesOnce == [][ComputesOnce]_vars

\* C29 for the layout of the mount, before any change of props
C29_OrderIndependentAtMount == [][changes = 0 => OrderIndependent]_vars

\* C29, towards Resolved: a layout event that leaves lines and a width
\* stored completes the calculation
C29_ResolvesOnFullData ==
  [][(LayoutEvent /\ textLinesRef' # <<>> /\ containerWidthRef' # 0) => isCalculationCompleteRef']_vars

\* C29, towards Resolved: while the calculation is not complete the <Text>
\* that carries the layout handlers is rendered
C29_MeasuresUntilResolved == ~isCalculationCompleteRef => shown.measuring

\* the text whose layout the stored lines report
MeasuredFrom(textLines) == ConcatLines(textLines, Len(textLines))

\* C16 (as claimed): the lines that a completed computation consumed are the
\* lines of the full text, the children, and never those of a truncated text,
\* also when the computation followed a change of style or numberOfLines.
C16_MeasuresFullText ==
  Resolved => MeasuredFrom(textLinesRef) = children

(***************************************************************************)
(* The component mounted with an empty text.  For an empty text the host   *)
(* reports no line at all, or one empty line of width 0.                   *)
(***************************************************************************)
EmptyLine == [text |-> <<>>, width |-> 0]

TextLayoutEmptyLine == MeasuredText = <<>> /\ onTextLayoutHandler(<<EmptyLine>>)

InitEmpty == MountOf({<<>>}) /\ FnIdle
NextEmpty ==
  \/ ChangeNumberOfLines
  \/ ChangeStyle
  \/ ChangeReadMoreText
  \/ ChangeCompensation
  \/ ChangeMonospaced
  \/ TextLayoutNoLines
  \/ TextLayoutEmptyLine
  \/ ContainerLayout
  \/ toggleTextExpansion
SpecEmpty == InitEmpty /\ [][NextEmpty]_vars

\* C13 (as claimed): with empty children a completed computation has
\* needsTruncation false, and the display is the empty text without a label,
\* whatever the line limit and whatever lines the host reported, on both
\* platforms.
C13_EmptyTextNeverTruncated ==
  (children = <<>> /\ Resolved) => (~isNeedReadMore /\ shown.text = <<>> /\ shown.label = "none")

(***************************************************************************)
(* visualSliceHelper called on its own: every text of at most MaxLen code  *)
(* points over SliceAlphabet, every start and end offset                   *)
(***************************************************************************)
MaxLen == 3
SliceAlphabet == {<<"a">>, RI, PIC, <<"zwj">>, <<"vs16">>}

RECURSIVE TextsOfLength(_, _)
TextsOfLength(alphabet, n) == IF n = 0 THEN {<<>>} ELSE {t \o c : t \in TextsOfLength(alphabet, n - 1), c \in alphabet}
TextsUpTo(alphabet, n) == UNION {TextsOfLength(alphabet, k) : k \in 0..n}

SliceTexts == TextsUpTo(SliceAlphabet, MaxLen)
SliceOffsets == (-MaxLen)..MaxLen

\* the props and refs of a component that is not mounted
Detached ==
  /\ platform = "android"
  /\ children = <<>>
  /\ numberOfLines = 1
  /\ style = "s1"
  /\ readMoreText = <<>>
  /\ compensationSpace = 0
  /\ isMonospaced = FALSE
  /\ isNeedReadMore = FALSE
  /\ isShowingFullText = FALSE
  /\ fullTextRef = <<>>
  /\ truncatedTextRef = <<>>
  /\ containerWidthRef = 0
  /\ textLinesRef = <<>>
  /\ isCalculationCompleteRef = FALSE
  /\ hasPropsChangedRef = TRUE
  /\ oldChildren = <<>>
  /\ textLayoutEnv = Env(1, <<>>, 0, FALSE)
  /\ containerLayoutEnv = Env(1, <<>>, 0, FALSE)
  /\ shown = Render("android", <<>>, <<>>, <<>>, FALSE, FALSE, FALSE, 1, FALSE)
  /\ changes = 0

\* visualSliceHelper(text, start, end)
CallVisualSlice ==
  /\ call = NoCall
  /\ \E text \in SliceTexts, start \in SliceOffsets, end \in {Some(k) : k \in SliceOffsets} :
    LET r == visualSliceHelperG(text, start, end, globals)
    IN /\ call' = [fn |-> "visualSliceHelper", text |-> text, start |-> start, end |-> end]
       /\ result' = r.val
       /\ globals' = r.g
       /\ UNCHANGED compVars

\* visualSliceHelper(text, start)
CallVisualSliceToEnd ==
  /\ call = NoCall
  /\ \E text \in SliceTexts, start \in SliceOffsets :
    LET r == visualSliceHelperG(text, start, Undefined, globals)
    IN /\ call' = [fn |-> "visualSliceHelper", text |-> text, start |-> start, end |-> Undefined]
       /\ result' = r.val
       /\ globals' = r.g
       /\ UNCHANGED compVars

InitSlice == Detached /\ FnIdle
NextSlice == CallVisualSlice \/ CallVisualSliceToEnd
SpecSlice == InitSlice /\ [][NextSlice]_vars

\* the code units [from, to) of text that visualSliceHelper(text, start, end) returns
RECURSIVE UnitOffset(_, _)
UnitOffset(segments, k) == IF k = 0 THEN 0 ELSE UnitOffset(segments, k - 1) + Len(segments[k])
SliceRange(text, start, end) ==
  LET segments == Segments(text, 0)
      b == SliceBounds(Len(segments), start, end)
  IN IF text = <<>> \/ start >= Len(segments) \/ b.from >= b.to THEN [from |-> 0, to |-> 0]
     ELSE [from |-> UnitOffset(segments, b.from), to |-> UnitOffset(segments, b.to)]

\* the flags of a text: its regional indicators paired from the left
RECURSIVE FlagsFrom(_, _)
FlagsFrom(s, p) ==
  IF p >= Len(s) THEN {}
  ELSE IF IsRegional(s, p) /\ IsRegional(s, p + 2) THEN {[from |-> p, to |-> p + 4]} \cup FlagsFrom(s, p + 4)
  ELSE FlagsFrom(s, p + CpLen(s, p))

\* the pictographic clusters of a text: pictographic code points joined by
\* U+200D, with U+FE0F after them if there is one
RECURSIVE ClusterEnd(_, _)
ClusterEnd(s, q) ==
  IF IsZWJ(s, q) /\ IsExtPict(s, q + 1) THEN ClusterEnd(s, q + 1 + CpLen(s, q + 1))
  ELSE IF IsVS16(s, q) THEN q + 1
  ELSE q
RECURSIVE ClustersFrom(_, _)
ClustersFrom(s, p) ==
  IF p >= Len(s) THEN {}
  ELSE IF IsExtPict(s, p) THEN LET q == ClusterEnd(s, p + CpLen(s, p)) IN {[from |-> p, to |-> q]} \cup ClustersFrom(s, q)
  ELSE ClustersFrom(s, p + CpLen(s, p))

\* the code units [c.from, c.to) are all inside the range r or all outside it
Atomic(r, c) == c.to <= r.from \/ r.to <= c.from \/ (r.from <= c.from /\ c.to <= r.to)

SliceReturned == call.fn = "visualSliceHelper"
ReturnedRange == SliceRange(call.text, call.start, call.end)

\* C3 (as claimed): for every text and every start and end offset, the string
\* visualSliceHelper returns holds both regional indicators of a flag of the
\* text or neither.
C3_FlagNeverSplit ==
  SliceReturned =>
    /\ result = Slice(call.text, ReturnedRange.from, ReturnedRange.to)
    /\ \A flag \in FlagsFrom(call.text, 0) : Atomic(ReturnedRange, flag)

\* C4: for every text and every start and end offset, each pictographic
\* cluster of the text is entirely inside the string visualSliceHelper
\* returns or entirely outside it.
C4_ClusterNeverSplit ==
  SliceReturned =>
    /\ result = Slice(call.text, ReturnedRange.from, ReturnedRange.to)
    /\ \A cluster \in ClustersFrom(call.text, 0) : Atomic(ReturnedRange, cluster)

\* C4 witness: the text is a letter and a pictographic code point with a
\* variation selector, or two joined pictographic code points, and the slice
\* that ends after its first unit or starts there keeps the cluster whole
C4_ClusterWitness ==
  /\ SliceReturned
  /\ \/ call.text = <<"a">> \o PIC \o <<"vs16">> /\ call.start = 1 /\ call.end = Some(2) /\ result = PIC \o <<"vs16">>
     \/ call.text = PIC \o <<"zwj">> \o PIC /\ call.start = 0 /\ call.end = Some(1) /\ result = call.text

\* the visual units of a text: the emoji clusters that getVisualLengthHelper
\* counts as one unit each (the matches of EMOJI_REGEX), and the code points
\* between them
VisualUnitSequence(text) == SegmentLoop("EMOJI", text, 0, 0, <<>>)

\* Array.prototype.slice(start, end) of a sequence: a negative index counts
\* from the end, an index out of range is clamped, an omitted end is the length
RelativeIndex(length, k) == IF k < 0 THEN Max(length + k, 0) ELSE Min(k, length)
SeqSlice(units, start, end) ==
  LET from == RelativeIndex(Len(units), start)
      to == IF end.def THEN RelativeIndex(Len(units), end.v) ELSE Len(units)
  IN IF from >= to THEN <<>> ELSE SubSeq(units, from + 1, to)

\* C11 (as claimed): visualSliceHelper(text, start, end) returns the
\* concatenation of the visual units of text that a sequence slice from start
\* to end selects: negative indices count from the end, indices out of range
\* are clamped to the number of units, an omitted end is the number of units,
\* and the result is empty when the normalized start is not before the
\* normalized end.
C11_MirrorsSequenceSlice ==
  SliceReturned => result = Join(SeqSlice(VisualUnitSequence(call.text), call.start, call.end))

(***************************************************************************)
(* getVisualLengthHelper called on its own: every text of at most MaxLen   *)
(* code points over LengthAlphabet                                         *)
(***************************************************************************)
LengthAlphabet == {<<"a">>, A4, PIC, RI, <<"zwj">>, <<"vs16">>}
LengthTexts == TextsUpTo(LengthAlphabet, MaxLen)

\* getVisualLengthHelper(text)
CallVisualLength ==
  /\ call = NoCall
  /\ \E text \in LengthTexts :
    LET r == getVisualLengthHelperG(text, {}, {}, globals)
    IN /\ call' = [fn |-> "getVisualLengthHelper", text |-> text]
       /\ result' = r.val
       /\ globals' = [r.g EXCEPT !.cache = EmptyCache]
       /\ UNCHANGED compVars

ClassAlphabet == {<<"a">>, <<"sp">>, <<"i">>, <<"m">>, <<"e">>, <<"acute">>, PIC}
ClassTexts == TextsUpTo(ClassAlphabet, MaxLen)
CustomCharacters == {{}, {<<"a">>}}

\* getVisualLengthHelper(text, shortWidthCharacters, longWidthCharacters)
CallVisualLengthCustom ==
  /\ call = NoCall
  /\ \E text \in ClassTexts, short \in CustomCharacters, long \in CustomCharacters :
    LET r == getVisualLengthHelperG(text, short, long, globals)
    IN /\ call' = [fn |-> "getVisualLengthHelper", text |-> text, customShortCharacters |-> short, customLongCharacters |-> long]
       /\ result' = r.val
       /\ globals' = [r.g EXCEPT !.cache = EmptyCache]
       /\ UNCHANGED compVars

InitLength == Detached /\ FnIdle
NextLength == CallVisualLength \/ CallVisualLengthCustom
SpecLength == InitLength /\ [][NextLength]_vars

LengthReturned == call.fn = "getVisualLengthHelper"
LengthReturnedCustom == call # NoCall /\ "customShortCharacters" \in DOMAIN call

\* C12 (as claimed): the visualLength that getVisualLengthHelper returns is
\* the number of emoji clusters of the text plus the number of code points
\* outside them, and its emojiCount is the number of emoji clusters; for a
\* text without emoji visualLength is the number of code points of the text.
C12_VisualLengthInCodePoints ==
  LengthReturned =>
    /\ result.visualLength = Len(VisualUnitSequence(call.text))
    /\ result.emojiCount = Cardinality({k \in 1..Len(VisualUnitSequence(call.text)) : EMOJI_REGEX(VisualUnitSequence(call.text)[k], 0) >= 0})

(***************************************************************************)
(* calculateSlicePositionHelper called on its own, and called again with   *)
(* a larger target width                                                   *)
(***************************************************************************)
MaxTarget == 7
PosAlphabet == {<<"a">>, <<"i">>, <<"m">>, <<"sp">>, PIC, RI}
\* longer texts: emoji before, between and after letters and spaces, and a
\* letter outside the BMP
ScanTexts == {
  PIC \o <<"m", "i">> \o PIC,
  <<"a">> \o PIC \o <<"i", "sp", "m">> \o PIC,
  PIC \o <<"a", "sp", "b">>,
  <<"a", "sp", "b">> \o PIC,
  <<"a", "b", "sp", "m", "i">>,
  <<"sp">> \o A4 \o <<"a">> }
PosTexts == TextsUpTo(PosAlphabet, MaxLen) \cup ScanTexts
CharWidths == {RInt(1), RInt(2)}
TargetWidths == {RInt(k) : k \in -1..MaxTarget}

NoneBefore == [def |-> FALSE]

SlicePositionCall(text, charWidth, targetWidth, monospaced, before) ==
  LET r == calculateSlicePositionHelperG(text, charWidth, targetWidth, monospaced, {}, {}, globals)
  IN /\ call' = [fn |-> "calculateSlicePositionHelper", text |-> text, charWidth |-> charWidth, targetWidth |-> targetWidth,
                 isMonospaced |-> monospaced, before |-> before, scan |-> r.scan]
     /\ result' = r.val
     /\ globals' = [r.g EXCEPT !.cache = EmptyCache]
     /\ UNCHANGED compVars

\* calculateSlicePositionHelper(text, charWidth, targetWidth, isMonospaced)
CallSlicePosition ==
  /\ call = NoCall
  /\ \E text \in PosTexts, charWidth \in CharWidths, targetWidth \in TargetWidths, monospaced \in BOOLEAN :
       SlicePositionCall(text, charWidth, targetWidth, monospaced, NoneBefore)

\* the same call with a larger target width; the call keeps what the call
\* before it was given and returned
Widen ==
  /\ call # NoCall
  /\ ~call.before.def
  /\ \E targetWidth \in TargetWidths :
       /\ RLt(call.targetWidth, targetWidth)
       /\ SlicePositionCall(call.text, call.charWidth, targetWidth, call.isMonospaced,
                            [def |-> TRUE, targetWidth |-> call.targetWidth, result |-> result])

InitPos == Detached /\ FnIdle
NextPos == CallSlicePosition \/ Widen
SpecPos == InitPos /\ [][NextPos]_vars

\* the number of trailing visual units to drop: the helper returns its negative
UnitsToDrop(value) == -value

Widened == call.fn = "calculateSlicePositionHelper" /\ call.before.def

\* C9: a call of calculateSlicePositionHelper that differs from the call
\* before it only by a target width at least as large drops at least as many
\* trailing visual units.
C9_MonotonicInTargetWidth ==
  (Widened /\ RLe(call.before.targetWidth, call.targetWidth)) => UnitsToDrop(result) >= UnitsToDrop(call.before.result)

\* C9 witness: a text with a space, cut inside, and cut further in with the
\* larger target width
C9_WidenedWitness ==
  /\ Widened
  /\ \E k \in 1..Len(call.text) : call.text[k] = "sp"
  /\ UnitsToDrop(call.before.result) > 0
  /\ UnitsToDrop(result) > UnitsToDrop(call.before.result)

PositionReturned == call.fn = "calculateSlicePositionHelper"

\* C15: calculateSlicePositionHelper returns 0 whenever the text is empty or
\* the target width is zero or negative, in proportional and in monospaced
\* mode and for every character width.
C15_ZeroWithoutTextOrTarget ==
  (PositionReturned /\ (call.text = <<>> \/ RLe(call.targetWidth, RInt(0)))) => result = 0

\* C15 witness: a monospaced call on a text with an emoji and a space, with
\* the target width 0, that returned 0
C15_NoTargetWitness ==
  /\ PositionReturned
  /\ call.isMonospaced
  /\ call.text = <<"a", "sp">> \o PIC
  /\ call.targetWidth = RInt(0)
  /\ result = 0

\* the width of a visual unit: an emoji cluster costs two character widths,
\* any other unit the character width times the multiplier of the class of
\* its own character, or the character width itself in monospaced mode
IsEmojiUnit(unit) == EMOJI_REGEX(unit, 0) >= 0
UnitWidth(unit, charWidth, monospaced) ==
  IF IsEmojiUnit(unit) THEN RMul(charWidth, Two)
  ELSE IF monospaced THEN charWidth
  ELSE getCharWidth(unit, charWidth, SHORT_CHARACTERS, LONG_CHARACTERS)

\* the sum of the widths of the last k units
RECURSIVE SuffixWidth(_, _, _, _)
SuffixWidth(units, k, charWidth, monospaced) ==
  IF k = 0 THEN RInt(0)
  ELSE RAdd(SuffixWidth(units, k - 1, charWidth, monospaced), UnitWidth(units[Len(units) - k + 1], charWidth, monospaced))

\* the smallest number of trailing units whose widths add up to targetWidth,
\* or the number of units when they never do
UnitsToReach(units, charWidth, targetWidth, monospaced) ==
  LET reaching == {k \in 1..Len(units) : RLe(targetWidth, SuffixWidth(units, k, charWidth, monospaced))}
  IN IF reaching = {} THEN Len(units) ELSE CHOOSE k \in reaching : \A j \in reaching : k <= j

\* the unit at visual position i - 1 is a plain space
SpaceBefore(units, i) == i > 0 /\ i <= Len(units) /\ units[i] = <<"sp">>

Scanned == PositionReturned /\ call.text # <<>> /\ RLt(RInt(0), call.targetWidth)
ScannedUnits == VisualUnitSequence(call.text)
\* the visual position i at which the scan stopped: the units consumed are
\* those at the positions i and after
CutPosition == Len(ScannedUnits) - call.scan.consumed

\* C17 (as claimed): in proportional mode, for a text that is not empty and a
\* positive target width, the number of units the scan consumes before the
\* trailing-space check is the smallest k for which the widths of the last k
\* visual units of the text add up to the target width, a unit that is no
\* emoji being as wide as the class of its own character makes it and an
\* emoji cluster twice the character width, wherever the text has emoji.
C17_ConsumesSmallestSuffix ==
  (Scanned /\ ~call.isMonospaced) =>
    call.scan.consumed = UnitsToReach(ScannedUnits, call.charWidth, call.targetWidth, FALSE)

\* C18 (as claimed): in monospaced mode the scan consumes the smallest k for
\* which the last k visual units add up to the target width, every unit that
\* is no emoji costing the character width and every emoji cluster twice
\* that, and the count is extended by one exactly when the unit at visual
\* position i - 1, before the position i where the scan stopped, is a plain
\* space.
C18_MonospacedScan ==
  (Scanned /\ call.isMonospaced) =>
    /\ call.scan.consumed = UnitsToReach(ScannedUnits, call.charWidth, call.targetWidth, TRUE)
    /\ call.scan.at >= 0 => (call.scan.extended <=> SpaceBefore(ScannedUnits, CutPosition))
    /\ UnitsToDrop(result) = call.scan.consumed + (IF call.scan.extended THEN 1 ELSE 0)

\* C19 (as claimed): in proportional mode, when the scan reaches the target
\* width at visual position i, the count returned is one more than the
\* number of units consumed if i > 0 and the unit at visual position i - 1
\* is a plain space, and is the number of units consumed otherwise.
C19_TrailingSpaceRule ==
  (Scanned /\ ~call.isMonospaced /\ call.scan.at >= 0) =>
    /\ call.scan.extended <=> SpaceBefore(ScannedUnits, CutPosition)
    /\ UnitsToDrop(result) = call.scan.consumed + (IF call.scan.extended THEN 1 ELSE 0)

(***************************************************************************)
(* The helpers and the truncation of rnShowMoreText.tsx called one after   *)
(* the other, up to MaxCalls times, on the module-level state the calls    *)
(* before them left                                                        *)
(***************************************************************************)
MaxCalls == 2
HistoryTexts == {
  <<"e", "acute", "a", "sp", "b">>,
  <<"a">> \o PIC \o <<"zwj">> \o PIC \o <<"sp", "m">>,
  Flag \o <<"i", "sp">> \o PIC,
  <<"a", "i", "m", "a">> }
HistoryTargets == {RInt(1), RInt(3), RInt(5)}
HistoryEnds == {Some(-1), Some(2), Undefined}
HistoryWidth == RInt(2)

CallsMade == IF call = NoCall THEN 0 ELSE call.n

\* the call made, its arguments, whether the normalization cache held its
\* text, and what the same call returns when the module has just been loaded
Returned(fn, args, r, fresh) ==
  /\ CallsMade < MaxCalls
  /\ call' = [fn |-> fn, args |-> args, n |-> CallsMade + 1, cached |-> args[1] \in DOMAIN globals.cache,
              cursor |-> globals.emoji, fresh |-> fresh]
  /\ result' = r.val
  /\ globals' = r.g
  /\ UNCHANGED compVars

CallGetVisualLength ==
  \E text \in HistoryTexts :
    Returned("getVisualLengthHelper", <<text>>, getVisualLengthHelperG(text, {}, {}, globals), getVisualLengthHelper(text, {}, {}))

CallVisualSliceAfter ==
  \E text \in HistoryTexts, end \in HistoryEnds :
    Returned("visualSliceHelper", <<text, end>>, visualSliceHelperG(text, 0, end, globals), visualSliceHelper(text, 0, end))

CallSlicePositionAfter ==
  \E text \in HistoryTexts, targetWidth \in HistoryTargets, monospaced \in BOOLEAN :
    Returned("calculateSlicePositionHelper", <<text, targetWidth, monospaced>>,
             calculateSlicePositionHelperG(text, HistoryWidth, targetWidth, monospaced, {}, {}, globals),
             calculateSlicePositionHelper(text, HistoryWidth, targetWidth, monospaced, {}, {}))

CallStringWidth ==
  \E text \in HistoryTexts, monospaced \in BOOLEAN :
    Returned("calculateStringWidthHelper", <<text, monospaced>>,
             calculateStringWidthHelperG(text, HistoryWidth, monospaced, {}, {}, globals),
             calculateStringWidthHelper(text, HistoryWidth, monospaced, {}, {}))

\* calculateTruncatedText of rnShowMoreText.tsx on a text of two rows, one visible
CallTruncate ==
  \E text \in HistoryTexts, lineWidth \in LineWidths, label \in Labels :
    LET textLines == <<[text |-> text, width |-> lineWidth], [text |-> <<"a">>, width |-> lineWidth]>>
        env == Env(1, label, 0, FALSE)
    IN Returned("calculateTruncatedText", <<text, lineWidth, label>>,
                truncatedTextAndroidG(textLines, 300, env, globals), truncatedTextAndroid(textLines, 300, env))

InitHelpers == Detached /\ FnIdle
NextHelpers == CallGetVisualLength \/ CallVisualSliceAfter \/ CallSlicePositionAfter \/ CallStringWidth \/ CallTruncate
SpecHelpers == InitHelpers /\ [][NextHelpers]_vars

\* C8: whatever calls were made before it, a call returns what the same call
\* returns on a freshly loaded module: the cursors the regexes were left with
\* and the contents of the normalization cache do not influence the result,
\* and every call leaves both cursors at 0.
C8_IndependentOfHistory ==
  call # NoCall => (result = call.fresh /\ globals.emoji = 0 /\ globals.simple = 0)

\* C8 witness: a second call whose text the normalization cache already held
\* and whose result is a cut inside the text
C8_HistoryWitness ==
  /\ call # NoCall
  /\ call.n = MaxCalls
  /\ call.cached
  /\ call.fn = "calculateSlicePositionHelper"
  /\ call.args[1] = <<"e", "acute", "a", "sp", "b">>
  /\ result = -2

(***************************************************************************)
(* Scenario A: calculateTruncatedText with a line limit of 3 in a          *)
(* container 300 wide, on four reported rows 100 wide made of the letter   *)
(* "a", for a compensation and then for a larger one                       *)
(***************************************************************************)
MaxCompensation == 18
ScenarioA == [maxLines |-> 3, containerWidth |-> 300, lineWidth |-> 100]
RowLengths == {4, 8}

ScenarioRows(rowLength) == [i \in 1..(ScenarioA.maxLines + 1) |-> [text |-> [k \in 1..rowLength |-> "a"], width |-> ScenarioA.lineWidth]]

Truncate(p, rowLength, label, compensation, before) ==
  LET textLines == ScenarioRows(rowLength)
      env == Env(ScenarioA.maxLines, label, compensation, FALSE)
  IN /\ call' = [fn |-> "calculateTruncatedText", platform |-> p, rowLength |-> rowLength, readMoreText |-> label,
                 compensationSpace |-> compensation, before |-> before]
     /\ result' = [needsTruncation |-> ExceedsLines(p, Len(textLines), ScenarioA.maxLines),
                   displayText |-> truncatedText(p, textLines, ScenarioA.containerWidth, env)]
     /\ UNCHANGED <<compVars, globals>>

\* the layout handlers of a component given compensationSpace
CallScenario ==
  /\ call = NoCall
  /\ \E p \in Platforms, rowLength \in RowLengths, label \in Labels, compensation \in 0..MaxCompensation :
       Truncate(p, rowLength, label, compensation, NoneBefore)

\* the same component given a larger compensationSpace
RaiseCompensation ==
  /\ call # NoCall
  /\ ~call.before.def
  /\ \E compensation \in 0..MaxCompensation :
       /\ compensation > call.compensationSpace
       /\ Truncate(call.platform, call.rowLength, call.readMoreText, compensation,
                   [def |-> TRUE, compensationSpace |-> call.compensationSpace, result |-> result])

InitScenario == Detached /\ FnIdle
NextScenario == CallScenario \/ RaiseCompensation
SpecScenario == InitScenario /\ [][NextScenario]_vars

VisualUnits(text) == getVisualLengthHelper(text, {}, {}).visualLength

\* affordanceCost: the estimated width of the label text on the last visible
\* row, plus compensationSpace character widths
AffordanceCost(lastRow, env) ==
  LET Cost(avg) ==
        RAdd(calculateStringWidthHelper(readMoreTextContent(env.readMoreText), OrOne(avg), env.isMonospaced, env.shortWidthCharacters, env.longWidthCharacters),
             RMul(RInt(env.compensationSpace), avg))
  IN Cost(avgCharWidth(lastRow, env.shortWidthCharacters, env.longWidthCharacters))

\* the text the engine is to store for the rows textLines in a container
\* containerWidth wide: the visible text as it is when the last visible row
\* leaves room for affordanceCost, and otherwise the visible text without the
\* units that calculateSlicePositionHelper counts for the target affordanceCost
TrimmedByCost(textLines, containerWidth, env) ==
  LET lastRow == textLines[env.numberOfLines]
      visibleText == StripNewline(ConcatLines(textLines, env.numberOfLines))
      Stored(cost) ==
        IF RLe(RInt(lastRow.width), RSub(RInt(containerWidth), cost)) THEN Trim(visibleText)
        ELSE Trim(visualSliceHelper(visibleText, 0,
                    Truthy(Some(calculateSlicePositionHelper(StripNewline(lastRow.text), avgCharWidth(lastRow, env.shortWidthCharacters, env.longWidthCharacters),
                                                             cost, env.isMonospaced, env.shortWidthCharacters, env.longWidthCharacters)))))
  IN Stored(AffordanceCost(lastRow, env))

ScenarioEnv == Env(ScenarioA.maxLines, call.readMoreText, call.compensationSpace, FALSE)

\* C20 (as claimed): calculateTruncatedText of rnShowMoreText.tsx drops units
\* from the visible text exactly when the width of the last visible row
\* exceeds the container width minus affordanceCost, the estimated width of
\* the label text plus compensationSpace character widths; when it does not
\* exceed it the visible text is stored as it is, and otherwise
\* affordanceCost is the target width given to calculateSlicePositionHelper.
C20_TrimsWhenCostDoesNotFit ==
  (call # NoCall /\ call.platform = "android") =>
    result.displayText = TrimmedByCost(ScenarioRows(call.rowLength), ScenarioA.containerWidth, ScenarioEnv)

\* C10 (as claimed): in Scenario A needsTruncation is true, the truncated
\* text for a larger compensation is never longer in visual units, and for
\* the largest compensation it is shorter than for compensation 0.
C10_ShrinksWithCompensation ==
  (call # NoCall /\ call.before.def) =>
    /\ result.needsTruncation
    /\ VisualUnits(result.displayText) <= VisualUnits(call.before.result.displayText)
    /\ (call.before.compensationSpace = 0 /\ call.compensationSpace = MaxCompensation)
         => VisualUnits(result.displayText) < VisualUnits(call.before.result.displayText)

\* C24 (as claimed): the number of units calculateSlicePositionHelper tells
\* to drop is an integer from 0 to the number of visual units of the text,
\* and it is that number whenever the widths of all the units of the text
\* together stay below the target width.
C24_DropWithinVisualLength ==
  PositionReturned =>
    /\ UnitsToDrop(result) \in 0..Len(ScannedUnits)
    /\ RLt(SuffixWidth(ScannedUnits, Len(ScannedUnits), call.charWidth, call.isMonospaced), call.targetWidth)
         => UnitsToDrop(result) = Len(ScannedUnits)

\* C24 for the texts of which getVisualLengthHelper counts the visual units
C24_DropWithinCountedLength == (PositionReturned /\ VisualUnits(call.text) = Len(ScannedUnits)) => C24_DropWithinVisualLength

\* C24 with the visualLength that getVisualLengthHelper returns as the bound
C24_DropWithinReturnedLength == PositionReturned => UnitsToDrop(result) \in 0..VisualUnits(call.text)

\* C26 (as claimed): getVisualLengthHelper counts, for every text, as many
\* visual units as visualSliceHelper indexes segments, with flags, with
\* characters outside the BMP and with text that is not in NFC as well.
C26_CountsTheSegmentsSliced == LengthReturned => result.visualLength = Len(Segments(call.text, 0))

\* C26 for the texts in NFC of BMP characters and pictographic emoji
C26_CountsTheSegmentsSlicedPlain == (LengthReturnedCustom /\ call.text = NFC(call.text)) => result.visualLength = Len(Segments(call.text, 0))

\* C26 for the texts that are not in NFC
C26_CountsTheSegmentsSlicedComposed == (LengthReturnedCustom /\ call.text # NFC(call.text)) => result.visualLength = Len(Segments(call.text, 0))

\* the class of one visual unit: an emoji cluster, or the class getCharWidth
\* gives a character (a space is short; short before long)
ClassOf(unit, customShortCharacters, customLongCharacters) ==
  IF IsEmojiUnit(unit) THEN "emoji"
  ELSE IF unit = <<"sp">> \/ unit \in customShortCharacters \cup SHORT_CHARACTERS THEN "short"
  ELSE IF unit \in customLongCharacters \cup LONG_CHARACTERS THEN "long"
  ELSE "normal"

UnitsOfClass(text, class, customShortCharacters, customLongCharacters) ==
  LET Count(units) == Cardinality({k \in 1..Len(units) : ClassOf(units[k], customShortCharacters, customLongCharacters) = class})
  IN Count(VisualUnitSequence(NFC(text)))

\* C22 (as claimed): the shortCharCount that getVisualLengthHelper returns is
\* the number of non-emoji visual units of class short (every space, and
\* the members of the custom and default short sets), its longCharCount the
\* number of class long that are not short; a unit is counted once at most,
\* so that shortCharCount + longCharCount + emojiCount <= visualLength.
C22_ClassCounts ==
  LengthReturnedCustom =>
    /\ result.shortCharCount = UnitsOfClass(call.text, "short", call.customShortCharacters, call.customLongCharacters)
    /\ result.longCharCount = UnitsOfClass(call.text, "long", call.customShortCharacters, call.customLongCharacters)
    /\ result.shortCharCount + result.longCharCount + result.emojiCount <= result.visualLength

\* C22 without spaces and with no character in both custom sets
C22_ClassCountsNoSpace ==
  (/\ LengthReturnedCustom
   /\ \A k \in 1..Len(call.text) : call.text[k] # "sp"
   /\ call.customShortCharacters \cap call.customLongCharacters = {}) =>
    /\ result.shortCharCount = UnitsOfClass(call.text, "short", call.customShortCharacters, call.customLongCharacters)
    /\ result.longCharCount = UnitsOfClass(call.text, "long", call.customShortCharacters, call.customLongCharacters)
    /\ result.shortCharCount + result.longCharCount + result.emojiCount <= result.visualLength

\* C22, the sum alone
C22_CountsWithinLength == LengthReturnedCustom => result.shortCharCount + result.longCharCount + result.emojiCount <= result.visualLength

(***************************************************************************)
(* The character width of the last visible row: sliceEndOffset of          *)
(* rnShowMoreText.tsx called on one measured row.                          *)
(***************************************************************************)
WidthRows == {<<>>, PIC \o PIC, <<"i", "i", "i">>, <<"m", "m", "m">>, <<"a", "i", "m">>, <<"a", "a">> \o PIC, <<"a", "sp", "b">>}
RowWidths == {100, 300}

\* calculateTruncatedText up to sliceEndOffset, for a component with numberOfLines 1
CallSliceEndOffset ==
  /\ call = NoCall
  /\ \E row \in WidthRows, width \in RowWidths, containerWidth \in RowWidths, label \in Labels,
        compensation \in Compensations, monospaced \in BOOLEAN :
       LET Record(r) ==
             /\ call' = [fn |-> "sliceEndOffset", row |-> row, width |-> width, containerWidth |-> containerWidth,
                         readMoreText |-> label, compensationSpace |-> compensation, isMonospaced |-> monospaced, used |-> r.used]
             /\ result' = r.val
             /\ globals' = r.g
       IN Record(sliceEndOffsetG(<<[text |-> row, width |-> width]>>, containerWidth, Env(1, label, compensation, monospaced), globals))
  /\ UNCHANGED compVars

InitWidth == Detached /\ FnIdle
NextWidth == CallSliceEndOffset
SpecWidth == InitWidth /\ [][NextWidth]_vars

\* C21 (as claimed): when the character width estimated for the last visible
\* row is 0, calculateTruncatedText uses 1 in its place both for the width of
\* the label text and for the scan of calculateSlicePositionHelper, so that
\* the scan never runs with character width 0.
C21_ZeroWidthReplacedByOne ==
  (call # NoCall /\ RIsZero(call.used.avg)) =>
    /\ call.used.cost = RInt(1)
    /\ call.used.scanned => call.used.scan = RInt(1)

\* C21 limited to the label text: its width is never computed with character width 0
C21_CostNeverZeroWidth == (call # NoCall /\ RIsZero(call.used.avg)) => call.used.cost = RInt(1)

\* the width the claim states for one unit of a row: width / visualLength,
\* scaled by 1 - balance / visualLength, which is 1 + |balance| / visualLength
\* for a negative balance and 1 - |balance| / visualLength for a positive one
ClaimedUnitWidth(row, width) ==
  LET Scaled(profile) ==
        LET balance == RSub(RAdd(RInt(profile.emojiCount), Rat(profile.longCharCount, 2)), Rat(profile.shortCharCount, 2))
        IN IF profile.visualLength = 0 THEN RInt(0)
           ELSE RMul(Rat(width, profile.visualLength), RSub(RInt(1), RDivInt(balance, profile.visualLength)))
  IN Scaled(getVisualLengthHelper(row, {}, {}))

AllIn(row, class) == row # <<>> /\ \A k \in 1..Len(row) : <<row[k]>> \in class

\* C23: the character width estimated for the last visible row is its width
\* divided by its visualLength, unchanged for balance 0, multiplied by
\* 1 + |balance| / visualLength for a negative balance and by
\* 1 - |balance| / visualLength for a positive one; a row of short characters
\* gets a strictly larger character width than a row of as many long
\* characters of the same measured width.
C23_BalanceCorrection ==
  call # NoCall =>
    /\ call.used.avg = ClaimedUnitWidth(call.row, call.width)
    /\ AllIn(call.row, SHORT_CHARACTERS) =>
         \A long \in WidthRows :
           (AllIn(long, LONG_CHARACTERS) /\ Len(long) = Len(call.row))
             => RLt(avgCharWidth([text |-> long, width |-> call.width], {}, {}), call.used.avg)

\* a row of three short characters 100 wide: 100 / 3 scaled by 1 + 1.5 / 3
C23_ShortRowWitness == call # NoCall /\ call.row = <<"i", "i", "i">> /\ call.width = 100 /\ call.used.avg = RInt(50)

(***************************************************************************)
(* The normalization cache: getNormalizedString called on new texts, one   *)
(* at a time or a list of them, and again on the text it has just stored.  *)
(***************************************************************************)
MaxTexts == 1003
BatchSize == 20

RECURSIVE Binary(_)
Binary(k) == IF k = 0 THEN <<>> ELSE Binary(k \div 2) \o <<IF k % 2 = 0 THEN "a" ELSE "b">>

\* the k-th text given to the helpers: texts that differ from each other,
\* none of them in NFC
CacheText(k) == <<"e", "acute">> \o Binary(k)

TextsNormalized == IF call = NoCall THEN 0 ELSE call.count

\* getNormalizedString(text) for a text that is not in the cache
NormalizeNew ==
  /\ TextsNormalized < MaxTexts
  /\ LET Stored(text, r) ==
           /\ call' = [fn |-> "getNormalizedString", text |-> text, count |-> TextsNormalized + 1, hit |-> FALSE]
           /\ result' = r.val
           /\ globals' = [globals EXCEPT !.cache = r.cache]
     IN Stored(CacheText(TextsNormalized), getNormalizedString(CacheText(TextsNormalized), globals.cache))
  /\ UNCHANGED compVars

\* the cache after getNormalizedString was called on the n texts from CacheText(from) on
RECURSIVE StoreTexts(_, _, _)
StoreTexts(cache, from, n) ==
  IF n = 0 THEN cache ELSE StoreTexts(getNormalizedString(CacheText(from), cache).cache, from + 1, n - 1)

\* a list of BatchSize texts laid out in one pass: getNormalizedString for
\* each of them in turn
NormalizeBatch ==
  /\ TextsNormalized + BatchSize <= MaxTexts
  /\ TextsNormalized % BatchSize = 0
  /\ LET Stored(text, cache) ==
           /\ call' = [fn |-> "getNormalizedString", text |-> text, count |-> TextsNormalized + BatchSize, hit |-> FALSE]
           /\ result' = cache[text]
           /\ globals' = [globals EXCEPT !.cache = cache]
     IN Stored(CacheText(TextsNormalized + BatchSize - 1), StoreTexts(globals.cache, TextsNormalized, BatchSize))
  /\ UNCHANGED compVars

\* getNormalizedString(text) for the text of the call before
NormalizeAgain ==
  /\ call # NoCall
  /\ ~call.hit
  /\ LET Found(r) ==
           /\ call' = [call EXCEPT !.hit = TRUE]
           /\ result' = r.val
           /\ globals' = [globals EXCEPT !.cache = r.cache]
     IN Found(getNormalizedString(call.text, globals.cache))
  /\ UNCHANGED compVars

InitCache == Detached /\ FnIdle
NextCache == NormalizeNew \/ NormalizeBatch \/ NormalizeAgain
SpecCache == InitCache /\ [][NextCache]_vars

CacheSize == Cardinality(DOMAIN globals.cache)
CacheHoldsNFC == \A text \in DOMAIN globals.cache : globals.cache[text] = NFC(text)

\* C30 (as claimed): the cache of normalized strings never holds more than
\* 1000 entries, and every value in it is the NFC form of its key.
C30_CacheWithinLimit == CacheSize <= NormalizeCacheLimit /\ CacheHoldsNFC

\* C30 (amended): the cache never holds more than 1001 entries, since it is
\* cleared when a text that is not in it finds more than 1000 entries there,
\* and every value in it is the NFC form of its key.
C30_CacheWithinLimitPlusOne == CacheSize <= NormalizeCacheLimit + 1 /\ CacheHoldsNFC

\* C30 witness: the cache after the clear, holding the one text that overflowed it
C30_ClearedWitness ==
  /\ call # NoCall
  /\ call.count = NormalizeCacheLimit + 2
  /\ DOMAIN globals.cache = {call.text}
  /\ result = <<"eacute">> \o Binary(NormalizeCacheLimit + 1)
====
